---------------------------- MODULE Spec2Model ----------------------------
(***************************************************************************)
(* A model of the colour palette picker (src/script.js): the palette       *)
(* (colors), its undo history (undoStack), the viewport (zoom, panX,       *)
(* panY), the pan and crop gestures, and the callbacks the handlers leave  *)
(* behind (the removal and clearing timers, the cropped image's onload).   *)
(*                                                                         *)
(* JavaScript numbers are modelled as exact rationals <<n, d>> (d > 0, in  *)
(* lowest terms); a hex colour string is the sequence of its characters.   *)
(* null is the empty sequence and a non-null value v is <<v>>.             *)
(***************************************************************************)
EXTENDS Integers, Sequences, FiniteSets, TLC

\* ------------------------------------------------------------ constants
MAX_COLORS == 21
DRAG_THRESHOLD == 2
MIN_CROP_SIZE == 10
MAX_UNDO_STACK == 10
\* ZOOM_DELTA, ZOOM_MIN and ZOOM_MAX are 0.1, 0.1 and 10
ZOOM_DELTA == <<1, 10>>
ZOOM_MIN == <<1, 10>>
ZOOM_MAX == <<10, 1>>

\* --------------------------------------------------------- null values
Null == <<>>
Some(v) == <<v>>
IsNull(o) == o = <<>>
Val(o) == o[1]

\* ------------------------------------------------- JavaScript numbers
Abs(n) == IF n < 0 THEN -n ELSE n

RECURSIVE GCD(_, _)
GCD(a, b) == IF b = 0 THEN a ELSE GCD(b, a % b)

\* the rational n/d (d # 0) in lowest terms with a positive denominator
Q(n, d) ==
    LET s == IF d < 0 THEN -1 ELSE 1
        g == GCD(Abs(n), Abs(d))
    IN  <<(s * n) \div g, (s * d) \div g>>

QInt(n) == <<n, 1>>
QAdd(a, b) ==
    LET g == GCD(a[2], b[2])
    IN  Q(a[1] * (b[2] \div g) + b[1] * (a[2] \div g), (a[2] \div g) * b[2])
QNeg(a) == <<-a[1], a[2]>>
QSub(a, b) == QAdd(a, QNeg(b))
QMul(a, b) ==
    LET g1 == GCD(Abs(a[1]), b[2])
        g2 == GCD(Abs(b[1]), a[2])
    IN  Q((a[1] \div g1) * (b[1] \div g2), (a[2] \div g2) * (b[2] \div g1))
\* a / b for b # 0
QDiv(a, b) == QMul(a, Q(b[2], b[1]))
QLt(a, b) == a[1] * b[2] < b[1] * a[2]
QLe(a, b) == a[1] * b[2] <= b[1] * a[2]
QMax(a, b) == IF QLt(a, b) THEN b ELSE a
QMin(a, b) == IF QLt(b, a) THEN b ELSE a
\* Math.floor and Math.round (halves round up)
QFloor(a) == a[1] \div a[2]
QRound(a) == (2 * a[1] + a[2]) \div (2 * a[2])

\* ------------------------------------------------------------ ColorMath
HexDigits == <<"0", "1", "2", "3", "4", "5", "6", "7",
               "8", "9", "a", "b", "c", "d", "e", "f">>
UpperDigits == <<"0", "1", "2", "3", "4", "5", "6", "7",
                 "8", "9", "A", "B", "C", "D", "E", "F">>

\* x.toString(16) for an integer x in 0..255
ToString16(x) ==
    IF x < 16 THEN <<HexDigits[x + 1]>>
    ELSE <<HexDigits[(x \div 16) + 1], HexDigits[(x % 16) + 1]>>

\* one channel of rgbToHex, left as toString(16) gave it
PadNothing(hex) == hex

\* one channel of rgbToHex: padded to two digits
PadOne(hex) == IF Len(hex) = 1 THEN <<"0">> \o hex ELSE hex
PadHex(x) == PadOne(ToString16(x))

rgbToHex(r, g, b) == <<"#">> \o PadHex(r) \o PadHex(g) \o PadHex(b)

\* the characters [a-f\d] match, case-insensitively
IsHexDigit(c) == \E i \in 1..16 : HexDigits[i] = c \/ UpperDigits[i] = c
DigitValue(c) == (CHOOSE i \in 1..16 : HexDigits[i] = c \/ UpperDigits[i] = c) - 1
\* parseInt(two characters, 16)
ParseHex2(s) == 16 * DigitValue(s[1]) + DigitValue(s[2])

\* hexToRgb: null unless an optional # is followed by exactly six hex digits
ParseSixDigits(body) ==
    IF Len(body) = 6 /\ \A i \in 1..6 : IsHexDigit(body[i])
    THEN Some([r |-> ParseHex2(SubSeq(body, 1, 2)),
               g |-> ParseHex2(SubSeq(body, 3, 4)),
               b |-> ParseHex2(SubSeq(body, 5, 6))])
    ELSE Null
hexToRgb(hex) ==
    ParseSixDigits(IF Len(hex) > 0 /\ hex[1] = "#" THEN Tail(hex) ELSE hex)

Max3(a, b, c) == QMax(QMax(a, b), c)
Min3(a, b, c) == QMin(QMin(a, b), c)

\* rgbToHsl is written in stages, each local of the code a parameter of the
\* next stage, so that every value is named once.
\* the switch on max: h before the scaling to degrees
HueSector(r, g, b, max, d) ==
    IF max = r
    THEN QDiv(QAdd(QDiv(QSub(g, b), d), QInt(IF QLt(g, b) THEN 6 ELSE 0)), QInt(6))
    ELSE IF max = g
    THEN QDiv(QAdd(QDiv(QSub(b, r), d), QInt(2)), QInt(6))
    ELSE QDiv(QAdd(QDiv(QSub(r, g), d), QInt(4)), QInt(6))

HslOfLightness(r, g, b, max, min, l, d) ==
    LET s == IF max = min THEN QInt(0)
             ELSE IF QLt(Q(1, 2), l)
                  THEN QDiv(d, QSub(QSub(QInt(2), max), min))
                  ELSE QDiv(d, QAdd(max, min))
        h == IF max = min THEN QInt(0) ELSE HueSector(r, g, b, max, d)
    IN  [h |-> QMul(h, QInt(360)), s |-> QMul(s, QInt(100)), l |-> QMul(l, QInt(100))]

HslOfRange(r, g, b, max, min) ==
    HslOfLightness(r, g, b, max, min, QDiv(QAdd(max, min), QInt(2)), QSub(max, min))

HslOfUnit(r, g, b) == HslOfRange(r, g, b, Max3(r, g, b), Min3(r, g, b))

\* rgbToHsl: h in degrees, s and l in percent
rgbToHsl(r, g, b) ==
    HslOfUnit(QDiv(QInt(r), QInt(255)), QDiv(QInt(g), QInt(255)),
              QDiv(QInt(b), QInt(255)))

\* hue2rgb's two wraps of t, then its four cases
WrapLow(t) == IF QLt(t, QInt(0)) THEN QAdd(t, QInt(1)) ELSE t
WrapHigh(t) == IF QLt(QInt(1), t) THEN QSub(t, QInt(1)) ELSE t
Hue2RgbAt(p, q, t) ==
    IF QLt(t, Q(1, 6)) THEN QAdd(p, QMul(QMul(QSub(q, p), QInt(6)), t))
    ELSE IF QLt(t, Q(1, 2)) THEN q
    ELSE IF QLt(t, Q(2, 3))
         THEN QAdd(p, QMul(QMul(QSub(q, p), QSub(Q(2, 3), t)), QInt(6)))
    ELSE p
hue2rgb(p, q, t) == Hue2RgbAt(p, q, WrapHigh(WrapLow(t)))

\* hslToRgb, in stages as well
RgbOfPQ(h, s, l, p, q) ==
    LET r == IF s = QInt(0) THEN l ELSE hue2rgb(p, q, QAdd(h, Q(1, 3)))
        g == IF s = QInt(0) THEN l ELSE hue2rgb(p, q, h)
        b == IF s = QInt(0) THEN l ELSE hue2rgb(p, q, QSub(h, Q(1, 3)))
    IN  [r |-> QRound(QMul(r, QInt(255))),
         g |-> QRound(QMul(g, QInt(255))),
         b |-> QRound(QMul(b, QInt(255)))]

RgbOfQ(h, s, l, q) == RgbOfPQ(h, s, l, QSub(QMul(QInt(2), l), q), q)

RgbOfUnit(h, s, l) ==
    RgbOfQ(h, s, l, IF QLt(l, Q(1, 2)) THEN QMul(l, QAdd(QInt(1), s))
                    ELSE QSub(QAdd(l, s), QMul(l, s)))

hslToRgb(h, s, l) ==
    RgbOfUnit(QDiv(h, QInt(360)), QDiv(s, QInt(100)), QDiv(l, QInt(100)))

HexOfRgb(color) == rgbToHex(color.r, color.g, color.b)

\* variations.slice(0, count)
Slice(variations, count) ==
    SubSeq(variations, 1, IF count < Len(variations) THEN count ELSE Len(variations))

VariationsOfHsl(hsl, count) ==
    Slice(<<HexOfRgb(hslToRgb(hsl.h, hsl.s, QMin(QInt(100), QAdd(hsl.l, QInt(15))))),
            HexOfRgb(hslToRgb(hsl.h, hsl.s, QMax(QInt(0), QSub(hsl.l, QInt(15))))),
            HexOfRgb(hslToRgb(hsl.h, QMax(QInt(0), QSub(hsl.s, QInt(30))), hsl.l))>>
          \o (IF count >= 4
              THEN <<HexOfRgb(hslToRgb(hsl.h, QMin(QInt(100), QAdd(hsl.s, QInt(20))),
                                       hsl.l))>>
              ELSE <<>>),
          count)

\* a createColorVariations that ignores count and returns all four
createFourVariations(r, g, b, count) == VariationsOfHsl(rgbToHsl(r, g, b), 4)

\* createColorVariations: lighter, darker, desaturated and, for count >= 4,
\* more saturated; cut to count entries
createColorVariations(r, g, b, count) == VariationsOfHsl(rgbToHsl(r, g, b), count)

\* sortByHue's key: the h of rgbToHsl(hexToRgb(hex))
HueOfRgb(rgb) == rgbToHsl(rgb.r, rgb.g, rgb.b).h
HueOf(hex) == HueOfRgb(Val(hexToRgb(hex)))

\* the comparator with its operands exchanged
CompareHueExchanged(ha, hb) == IF QLt(hb, ha) THEN -1 ELSE IF ha = hb THEN 0 ELSE 1

\* the comparator's sign: negative, zero or positive
CompareHue(ha, hb) == IF QLt(ha, hb) THEN -1 ELSE IF ha = hb THEN 0 ELSE 1

\* ------------------------------------------------------- the environment
\* the pane holding the canvas (pane.clientWidth, pane.clientHeight); the
\* canvas sits at the client origin, so canvas and client coordinates agree
PaneWidth == 40
PaneHeight == 30

\* the images a user uploads
ImageWidth == 20
ImageHeight == 20
Images == {[width |-> ImageWidth, height |-> ImageHeight]}

\* getImageData(px, py, 1, 1).data of the image: a left and a right band
PixelAt(image, px, py) ==
    IF 2 * px < image.width THEN <<204, 0, 0>> ELSE <<0, 102, 204>>

\* what colorThief.getPalette may find in an image, by prominence: a pool the
\* extractor's answer is a prefix of
DominantColor(i) ==
    IF i = 1 THEN <<128, 128, 128>>
    ELSE <<51 * (i % 6), 51 * ((i \div 2) % 6), 51 * ((i \div 3) % 6)>>

\* the lengths of the extractor's answers that are explored, besides the
\* requested count itself
FewColors == 2

\* colorThief.getPalette(image, colorCount): it throws, returns null, or
\* returns at most colorCount colours
ExtractorOutcomes(colorCount) ==
    {[kind |-> "throw", palette |-> <<>>], [kind |-> "null", palette |-> <<>>]}
    \cup {[kind |-> "palette", palette |-> [i \in 1..k |-> DominantColor(i)]] :
            k \in {n \in {FewColors, colorCount} : n <= colorCount}}

\* sampleArea: the rounded mean of the pixels of the 3x3 square around (x, y)
\* that lie in the image
InsideSquare(image, x, y) ==
    {d \in (-1..1) \X (-1..1) :
        /\ x + d[1] >= 0 /\ y + d[2] >= 0
        /\ x + d[1] < image.width /\ y + d[2] < image.height}

RECURSIVE ChannelSum(_, _, _, _, _)
ChannelSum(image, x, y, c, S) ==
    IF S = {} THEN 0
    ELSE LET d == CHOOSE e \in S : TRUE
         IN  PixelAt(image, x + d[1], y + d[2])[c] + ChannelSum(image, x, y, c, S \ {d})

\* the mean taken over the 9 places of the square, in the image or not
MeanOverNine(image, x, y, inside) ==
    [r |-> QRound(Q(ChannelSum(image, x, y, 1, inside), 9)),
     g |-> QRound(Q(ChannelSum(image, x, y, 2, inside), 9)),
     b |-> QRound(Q(ChannelSum(image, x, y, 3, inside), 9))]

MeanOver(image, x, y, inside) ==
    [r |-> QRound(Q(ChannelSum(image, x, y, 1, inside), Cardinality(inside))),
     g |-> QRound(Q(ChannelSum(image, x, y, 2, inside), Cardinality(inside))),
     b |-> QRound(Q(ChannelSum(image, x, y, 3, inside), Cardinality(inside)))]

sampleArea(image, x, y) == MeanOver(image, x, y, InsideSquare(image, x, y))

\* palette.map(rgb => rgbToHex(rgb[0], rgb[1], rgb[2]))
HexOfPalette(palette) ==
    [i \in 1..Len(palette) |-> rgbToHex(palette[i][1], palette[i][2], palette[i][3])]

RECURSIVE AdvancedColors(_, _)
\* prefillAdvancedPaletteFromImage's forEach over the first n main colours: each
\* base, then 4 variations of the first and 3 of every other
AdvancedColors(mainPalette, n) ==
    IF n = 0 THEN <<>>
    ELSE LET rgb == mainPalette[n]
         IN  AdvancedColors(mainPalette, n - 1)
             \o <<rgbToHex(rgb[1], rgb[2], rgb[3])>>
             \o createColorVariations(rgb[1], rgb[2], rgb[3], IF n = 1 THEN 4 ELSE 3)

\* the forEach run over the main colours from the last rank to the first
AdvancedOfLastRankFirst(mainPalette) ==
    AdvancedColors([i \in 1..Len(mainPalette) |->
                       mainPalette[Len(mainPalette) + 1 - i]],
                   Len(mainPalette))

AdvancedOf(mainPalette) == AdvancedColors(mainPalette, Len(mainPalette))

\* The values of the pure functions above on the colours this environment can
\* produce, computed once: every colour of a palette is a sample of an image,
\* a pool colour or a variation of one of the first five pool colours.
Range(f) == {f[i] : i \in DOMAIN f}
Lookup(cache, x, otherwise) == IF x \in DOMAIN cache THEN cache[x] ELSE otherwise
AdvancedCache ==
    [mainPalette \in {out.palette : out \in ExtractorOutcomes(5)} |->
        AdvancedOf(mainPalette)]
AdvancedHex(mainPalette) == Lookup(AdvancedCache, mainPalette, AdvancedOf(mainPalette))
SampleHex(image, x, y) == HexOfRgb(sampleArea(image, x, y))
KnownColors ==
    UNION {Range(AdvancedCache[m]) : m \in DOMAIN AdvancedCache}
    \cup {rgbToHex(DominantColor(i)[1], DominantColor(i)[2], DominantColor(i)[3]) :
             i \in 1..20}
    \cup UNION {{SampleHex(image, x, y) :
                    x \in 0..(image.width - 1), y \in 0..(image.height - 1)} :
                image \in Images}
HueCache == [hex \in KnownColors |-> HueOf(hex)]
Hue(hex) == Lookup(HueCache, hex, HueOf(hex))

\* sortByHue: a copy of colorArray sorted by the comparator hslA.h - hslB.h;
\* Array.prototype.sort is stable, so equal hues keep their order
RECURSIVE InsertBeforeEqualHues(_, _, _)
\* hex, of hue h, placed before the entries of the sorted sequence of its hue
InsertBeforeEqualHues(sorted, hex, h) ==
    IF sorted = <<>> THEN <<hex>>
    ELSE IF CompareHue(Hue(sorted[Len(sorted)]), h) < 0 THEN Append(sorted, hex)
    ELSE Append(InsertBeforeEqualHues(SubSeq(sorted, 1, Len(sorted) - 1), hex, h),
                sorted[Len(sorted)])

RECURSIVE InsertByHue(_, _, _)
\* hex, of hue h, placed after every entry of the sorted sequence that does not
\* compare greater
InsertByHue(sorted, hex, h) ==
    IF sorted = <<>> THEN <<hex>>
    ELSE IF CompareHue(Hue(sorted[Len(sorted)]), h) <= 0 THEN Append(sorted, hex)
    ELSE Append(InsertByHue(SubSeq(sorted, 1, Len(sorted) - 1), hex, h),
                sorted[Len(sorted)])

RECURSIVE SortPrefix(_, _)
SortPrefix(colorArray, n) ==
    IF n = 0 THEN <<>>
    ELSE InsertByHue(SortPrefix(colorArray, n - 1), colorArray[n], Hue(colorArray[n]))

sortByHue(colorArray) == SortPrefix(colorArray, Len(colorArray))

\* ------------------------------------------------------------- the state
VARIABLES
    colors,           \* the palette, in manual order
    undoStack,        \* earlier palettes, the newest last
    rendered,         \* the colour blocks of paletteGrid: their hex, in display order
    currentImage,     \* null or the loaded image
    zoom, panX, panY,
    isPanning, hasDragged, lastMouseX, lastMouseY,
    isCropMode, cropStartX, cropStartY, cropEndX, cropEndY, cropPrefillMode,
    timers,           \* the pending setTimeout callbacks, in the order they were set
    cropLoads,        \* the cropped images whose onload has not run yet
    ev,               \* the handler or callback that ran last, and what it did
    nEvents           \* the number of user events so far

paletteVars == <<colors, undoStack, rendered>>
viewVars == <<currentImage, zoom, panX, panY>>
panVars == <<isPanning, hasDragged, lastMouseX, lastMouseY>>
cropVars == <<isCropMode, cropStartX, cropStartY, cropEndX, cropEndY, cropPrefillMode>>
vars == <<colors, undoStack, rendered, currentImage, zoom, panX, panY,
          isPanning, hasDragged, lastMouseX, lastMouseY,
          isCropMode, cropStartX, cropStartY, cropEndX, cropEndY, cropPrefillMode,
          timers, cropLoads, ev, nEvents>>

Event(op, arg, res) == [op |-> op, arg |-> arg, res |-> res]
\* what a prefill event records: where the image came from and what the
\* extractor returned
Extraction(from, out) == [from |-> from, palette |-> out.palette]
\* a cropped image whose onload is pending: its rectangle, and the mode the
\* selection was begun in
Cropped(region, mode) == [region |-> region, begun |-> mode]
\* what the end of a crop selection records: the event, and the rectangle
\* that was selected
Selection(p, res, region) == [op |-> "up", arg |-> p, res |-> res, region |-> region]
\* what a mouse move records: also how far the pointer moved the image
Moved(p, res, by) == [op |-> "move", arg |-> p, res |-> res, by |-> by]
\* what a deferred step or an undo records: also the palette it found
Deferred(op, arg, res, before) ==
    [op |-> op, arg |-> arg, res |-> res, before |-> before]
\* what a click on a delete button records
Click(hex, displayIndex) == [hex |-> hex, displayIndex |-> displayIndex]

Init ==
    /\ colors = <<>>
    /\ undoStack = <<>>
    /\ rendered = <<>>
    /\ currentImage = Null
    /\ zoom = QInt(1)
    /\ panX = QInt(0)
    /\ panY = QInt(0)
    /\ isPanning = FALSE
    /\ hasDragged = FALSE
    /\ lastMouseX = 0
    /\ lastMouseY = 0
    /\ isCropMode = FALSE
    /\ cropStartX = Some(0)
    /\ cropStartY = 0
    /\ cropEndX = 0
    /\ cropEndY = 0
    /\ cropPrefillMode = Null
    /\ timers = <<>>
    /\ cropLoads = <<>>
    /\ ev = Event("init", 0, "ok")
    /\ nEvents = 0

\* ------------------------------------------------------------ the helpers
\* a saveState that refuses the push on a full stack instead of evicting
saveStateKeepsOldest(stack, palette) ==
    IF Len(stack) >= MAX_UNDO_STACK THEN stack ELSE Append(stack, palette)

\* saveState: push a copy of the palette, then drop the oldest entry if the
\* stack is over MAX_UNDO_STACK
saveState(stack, palette) ==
    LET pushed == Append(stack, palette)
    IN  IF Len(pushed) > MAX_UNDO_STACK THEN Tail(pushed) ELSE pushed

\* canvasToImageCoords
canvasToImageCoords(canvasX, canvasY) ==
    [x |-> QDiv(QSub(QInt(canvasX), QMul(panX, zoom)), zoom),
     y |-> QDiv(QSub(QInt(canvasY), QMul(panY, zoom)), zoom)]

\* colors.lastIndexOf(hex) in place of indexOf
LastIndexOf(palette, hex) ==
    IF \E i \in 1..Len(palette) : palette[i] = hex
    THEN CHOOSE i \in 1..Len(palette) :
            palette[i] = hex /\ \A j \in (i + 1)..Len(palette) : palette[j] # hex
    ELSE 0

\* colors.indexOf(hex), counted from 1; 0 when hex is absent
IndexOf(palette, hex) ==
    IF \E i \in 1..Len(palette) : palette[i] = hex
    THEN CHOOSE i \in 1..Len(palette) :
            palette[i] = hex /\ \A j \in 1..(i - 1) : palette[j] # hex
    ELSE 0

\* colors.splice(i - 1, 1): nothing goes when i is past the end
Splice(palette, i) ==
    IF i > Len(palette) THEN palette
    ELSE SubSeq(palette, 1, i - 1) \o SubSeq(palette, i + 1, Len(palette))

\* renderPalette: the blocks are rebuilt from the palette sorted by hue
renderPalette(palette) == sortByHue(palette)

\* pickColorAtPoint's early returns without the test of colors.length
PickRejectedIgnoresCount(canvasX, canvasY) ==
    \/ IsNull(currentImage)
    \/ LET image == Val(currentImage)
           at == canvasToImageCoords(canvasX, canvasY)
       IN  \/ QLt(at.x, QInt(0))
           \/ QLt(at.y, QInt(0))
           \/ QLe(QInt(image.width), at.x)
           \/ QLe(QInt(image.height), at.y)

\* pickColorAtPoint's early returns: no image or a full palette, then a point
\* that maps outside the image
PickRejected(canvasX, canvasY) ==
    \/ IsNull(currentImage)
    \/ Len(colors) >= MAX_COLORS
    \/ LET image == Val(currentImage)
           at == canvasToImageCoords(canvasX, canvasY)
       IN  \/ QLt(at.x, QInt(0))
           \/ QLt(at.y, QInt(0))
           \/ QLe(QInt(image.width), at.x)
           \/ QLe(QInt(image.height), at.y)

\* the hex pickColorAtPoint pushes for a point it accepts
SampleAt(image, at) == HexOfRgb(sampleArea(image, QFloor(at.x), QFloor(at.y)))
PickedHex(canvasX, canvasY) ==
    SampleAt(Val(currentImage), canvasToImageCoords(canvasX, canvasY))

\* a pick that skips a colour the palette already holds
PickedPaletteWithoutDuplicates(palette, hex) ==
    IF \E i \in 1..Len(palette) : palette[i] = hex THEN palette
    ELSE Append(palette, hex)

\* the palette after pickColorAtPoint accepts: the picked hex goes last
PickedPalette(palette, hex) == Append(palette, hex)

\* the image-space rectangle of the selection, not clamped to the image
CropRegionUnclamped ==
    LET sx == Val(cropStartX)
        x1 == IF sx < cropEndX THEN sx ELSE cropEndX
        y1 == IF cropStartY < cropEndY THEN cropStartY ELSE cropEndY
        x2 == IF sx > cropEndX THEN sx ELSE cropEndX
        y2 == IF cropStartY > cropEndY THEN cropStartY ELSE cropEndY
        imgCoords1 == canvasToImageCoords(x1, y1)
        imgCoords2 == canvasToImageCoords(x2, y2)
    IN  [imgX1 |-> QFloor(imgCoords1.x),
         imgY1 |-> QFloor(imgCoords1.y),
         imgX2 |-> QFloor(imgCoords2.x),
         imgY2 |-> QFloor(imgCoords2.y)]

\* executeCropPrefill: the image-space rectangle of the selection
CropRegion ==
    LET image == Val(currentImage)
        sx == Val(cropStartX)
        x1 == IF sx < cropEndX THEN sx ELSE cropEndX
        y1 == IF cropStartY < cropEndY THEN cropStartY ELSE cropEndY
        x2 == IF sx > cropEndX THEN sx ELSE cropEndX
        y2 == IF cropStartY > cropEndY THEN cropStartY ELSE cropEndY
        imgCoords1 == canvasToImageCoords(x1, y1)
        imgCoords2 == canvasToImageCoords(x2, y2)
        fx1 == QFloor(imgCoords1.x)
        fy1 == QFloor(imgCoords1.y)
        fx2 == QFloor(imgCoords2.x)
        fy2 == QFloor(imgCoords2.y)
    IN  [imgX1 |-> IF fx1 > 0 THEN fx1 ELSE 0,
         imgY1 |-> IF fy1 > 0 THEN fy1 ELSE 0,
         imgX2 |-> IF fx2 < image.width THEN fx2 ELSE image.width,
         imgY2 |-> IF fy2 < image.height THEN fy2 ELSE image.height]

\* executeCropPrefill's early returns with the height alone compared to
\* MIN_CROP_SIZE
CropRejectedByHeight ==
    \/ IsNull(currentImage)
    \/ IsNull(cropStartX)
    \/ CropRegion.imgY2 - CropRegion.imgY1 < MIN_CROP_SIZE

\* executeCropPrefill's early returns: no image, no selection, or a selection
\* under MIN_CROP_SIZE
CropRejected ==
    \/ IsNull(currentImage)
    \/ IsNull(cropStartX)
    \/ CropRegion.imgX2 - CropRegion.imgX1 < MIN_CROP_SIZE
    \/ CropRegion.imgY2 - CropRegion.imgY1 < MIN_CROP_SIZE

\* a queue without its i-th entry
DropAt(queue, i) == SubSeq(queue, 1, i - 1) \o SubSeq(queue, i + 1, Len(queue))

\* a prefillPaletteFromImage that appends the extracted colours
prefillAppendsFromImage(out) ==
    /\ undoStack' = saveState(undoStack, colors)
    /\ IF out.kind = "palette"
       THEN /\ colors' = colors \o HexOfPalette(out.palette)
            /\ rendered' = renderPalette(colors')
       ELSE UNCHANGED <<colors, rendered>>

\* prefillPaletteFromImage on a non-null image: the state is saved inside the
\* try; a throw or a null palette (palette.map throws) ends in the catch
prefillPaletteFromImage(out) ==
    /\ undoStack' = saveState(undoStack, colors)
    /\ IF out.kind = "palette"
       THEN /\ colors' = HexOfPalette(out.palette)
            /\ rendered' = renderPalette(colors')
       ELSE UNCHANGED <<colors, rendered>>

\* prefillAdvancedPaletteFromImage on a non-null image: colors = [] runs after
\* getPalette returned and before mainPalette.forEach, which throws on null
prefillAdvancedPaletteFromImage(out) ==
    /\ undoStack' = saveState(undoStack, colors)
    /\ IF out.kind = "throw" THEN UNCHANGED <<colors, rendered>>
       ELSE IF out.kind = "null"
       THEN /\ colors' = <<>>
            /\ UNCHANGED rendered
       ELSE /\ colors' = AdvancedHex(out.palette)
            /\ rendered' = renderPalette(colors')

\* ----------------------------------------------------------- the handlers
\* img.onload of handleImageUpload, with initializeCanvas
ImageLoaded(image) ==
    LET scaleX == Q(PaneWidth, image.width)
        scaleY == Q(PaneHeight, image.height)
        z == QMax(scaleX, scaleY)
    IN  /\ currentImage' = Some(image)
        /\ zoom' = z
        /\ panX' = QDiv(QSub(QDiv(QInt(PaneWidth), z), QInt(image.width)), QInt(2))
        /\ panY' = QDiv(QSub(QDiv(QInt(PaneHeight), z), QInt(image.height)), QInt(2))
        /\ ev' = Event("load", image, "ok")
        /\ UNCHANGED <<paletteVars, panVars, cropVars, timers, cropLoads>>

\* handleWheel
HandleWheel(deltaY) ==
    /\ ~IsNull(currentImage)
    /\ LET delta == IF deltaY > 0 THEN QSub(QInt(1), ZOOM_DELTA)
                    ELSE QAdd(QInt(1), ZOOM_DELTA)
       IN  zoom' = QMax(ZOOM_MIN, QMin(QMul(zoom, delta), ZOOM_MAX))
    /\ ev' = Event("wheel", deltaY, "ok")
    /\ UNCHANGED <<paletteVars, currentImage, panX, panY, panVars, cropVars,
                   timers, cropLoads>>

\* handleMouseDown, left button, at canvas point p
HandleMouseDown(p) ==
    /\ ~IsNull(currentImage)
    /\ IF isCropMode
       THEN /\ cropStartX' = Some(p[1])
            /\ cropStartY' = p[2]
            /\ cropEndX' = p[1]
            /\ cropEndY' = p[2]
            /\ UNCHANGED <<panVars, isCropMode, cropPrefillMode>>
       ELSE /\ isPanning' = TRUE
            /\ hasDragged' = FALSE
            /\ lastMouseX' = p[1]
            /\ lastMouseY' = p[2]
            /\ UNCHANGED cropVars
    /\ ev' = Event("down", p, IF isCropMode THEN "crop" ELSE "pan")
    /\ UNCHANGED <<paletteVars, viewVars, timers, cropLoads>>

\* a handleMouseMove that pans by the screen delta itself
HandleMouseMovePansByPixels(p) ==
    /\ ~IsNull(currentImage)
    /\ IF isCropMode /\ ~IsNull(cropStartX)
       THEN /\ cropEndX' = p[1]
            /\ cropEndY' = p[2]
            /\ UNCHANGED <<panX, panY, panVars>>
       ELSE IF isPanning
       THEN LET dx == p[1] - lastMouseX
                dy == p[2] - lastMouseY
            IN  /\ hasDragged' = (hasDragged \/ Abs(dx) > DRAG_THRESHOLD
                                            \/ Abs(dy) > DRAG_THRESHOLD)
                /\ panX' = QAdd(panX, QInt(dx))
                /\ panY' = QAdd(panY, QInt(dy))
                /\ lastMouseX' = p[1]
                /\ lastMouseY' = p[2]
                /\ UNCHANGED <<isPanning, cropEndX, cropEndY>>
       ELSE UNCHANGED <<panX, panY, panVars, cropEndX, cropEndY>>
    /\ ev' = IF isCropMode /\ ~IsNull(cropStartX) THEN Moved(p, "crop", <<0, 0>>)
             ELSE IF isPanning
             THEN Moved(p, "pan", <<p[1] - lastMouseX, p[2] - lastMouseY>>)
             ELSE Moved(p, "none", <<0, 0>>)
    /\ UNCHANGED <<paletteVars, currentImage, zoom, isCropMode, cropStartX,
                   cropStartY, cropPrefillMode, timers, cropLoads>>

\* handleMouseMove
HandleMouseMove(p) ==
    /\ ~IsNull(currentImage)
    /\ IF isCropMode /\ ~IsNull(cropStartX)
       THEN /\ cropEndX' = p[1]
            /\ cropEndY' = p[2]
            /\ UNCHANGED <<panX, panY, panVars>>
       ELSE IF isPanning
       THEN LET dx == p[1] - lastMouseX
                dy == p[2] - lastMouseY
            IN  /\ hasDragged' = (hasDragged \/ Abs(dx) > DRAG_THRESHOLD
                                            \/ Abs(dy) > DRAG_THRESHOLD)
                /\ panX' = QAdd(panX, QDiv(QInt(dx), zoom))
                /\ panY' = QAdd(panY, QDiv(QInt(dy), zoom))
                /\ lastMouseX' = p[1]
                /\ lastMouseY' = p[2]
                /\ UNCHANGED <<isPanning, cropEndX, cropEndY>>
       ELSE UNCHANGED <<panX, panY, panVars, cropEndX, cropEndY>>
    /\ ev' = IF isCropMode /\ ~IsNull(cropStartX) THEN Moved(p, "crop", <<0, 0>>)
             ELSE IF isPanning
             THEN Moved(p, "pan", <<p[1] - lastMouseX, p[2] - lastMouseY>>)
             ELSE Moved(p, "none", <<0, 0>>)
    /\ UNCHANGED <<paletteVars, currentImage, zoom, isCropMode, cropStartX,
                   cropStartY, cropPrefillMode, timers, cropLoads>>

\* a handleMouseUp that picks whether the gesture was a drag or not
HandleMouseUpIgnoresDrag(p) ==
    IF isCropMode /\ ~IsNull(cropStartX)
    THEN /\ cropLoads' = IF CropRejected THEN cropLoads
                         ELSE Append(cropLoads, Cropped(CropRegion, cropPrefillMode))
         /\ isCropMode' = FALSE
         /\ cropStartX' = Null
         /\ ev' = Selection(p, IF CropRejected THEN "cropRejected" ELSE "cropped",
                           CropRegion)
         /\ UNCHANGED <<paletteVars, viewVars, panVars, cropStartY, cropEndX,
                        cropEndY, cropPrefillMode, timers>>
    ELSE IF isPanning
    THEN /\ isPanning' = FALSE
         /\ hasDragged' = FALSE
         /\ IF PickRejected(p[1], p[2])
            THEN UNCHANGED paletteVars
            ELSE /\ undoStack' = saveState(undoStack, colors)
                 /\ colors' = PickedPalette(colors, PickedHex(p[1], p[2]))
                 /\ rendered' = renderPalette(colors')
         /\ ev' = Event("up", p, IF PickRejected(p[1], p[2]) THEN "rejected"
                                 ELSE "picked")
         /\ UNCHANGED <<viewVars, lastMouseX, lastMouseY, cropVars, timers, cropLoads>>
    ELSE /\ ev' = Event("up", p, "none")
         /\ UNCHANGED <<paletteVars, viewVars, panVars, cropVars, timers, cropLoads>>

\* handleMouseUp, for mouseup and for mouseleave
HandleMouseUp(p) ==
    IF isCropMode /\ ~IsNull(cropStartX)
    THEN /\ cropLoads' = IF CropRejected THEN cropLoads
                         ELSE Append(cropLoads, Cropped(CropRegion, cropPrefillMode))
         /\ isCropMode' = FALSE
         /\ cropStartX' = Null
         /\ ev' = Selection(p, IF CropRejected THEN "cropRejected" ELSE "cropped",
                           CropRegion)
         /\ UNCHANGED <<paletteVars, viewVars, panVars, cropStartY, cropEndX,
                        cropEndY, cropPrefillMode, timers>>
    ELSE IF isPanning
    THEN /\ isPanning' = FALSE
         /\ hasDragged' = FALSE
         /\ IF hasDragged \/ PickRejected(p[1], p[2])
            THEN UNCHANGED paletteVars
            ELSE /\ undoStack' = saveState(undoStack, colors)
                 /\ colors' = PickedPalette(colors, PickedHex(p[1], p[2]))
                 /\ rendered' = renderPalette(colors')
         /\ ev' = Event("up", p, IF hasDragged THEN "dragged"
                                 ELSE IF PickRejected(p[1], p[2]) THEN "rejected"
                                 ELSE "picked")
         /\ UNCHANGED <<viewVars, lastMouseX, lastMouseY, cropVars, timers, cropLoads>>
    ELSE /\ ev' = Event("up", p, "none")
         /\ UNCHANGED <<paletteVars, viewVars, panVars, cropVars, timers, cropLoads>>

\* startCropMode, from a crop button or from Ctrl+S / Ctrl+D (the buttons are
\* enabled, and the keys act, once an image is loaded)
StartCropMode(mode) ==
    /\ ~IsNull(currentImage)
    /\ isCropMode' = TRUE
    /\ cropPrefillMode' = Some(mode)
    /\ cropStartX' = Null
    /\ ev' = Event("startCrop", mode, "ok")
    /\ UNCHANGED <<paletteVars, viewVars, panVars, cropStartY, cropEndX, cropEndY,
                   timers, cropLoads>>

\* prefillPalette: the prefill button, enabled once an image is loaded
PrefillPalette(out) ==
    /\ ~IsNull(currentImage)
    /\ prefillPaletteFromImage(out)
    /\ ev' = Event("prefillBasic", Extraction("button", out), out.kind)
    /\ UNCHANGED <<viewVars, panVars, cropVars, timers, cropLoads>>

\* prefillAdvancedPalette: the advanced prefill button
PrefillAdvancedPalette(out) ==
    /\ ~IsNull(currentImage)
    /\ prefillAdvancedPaletteFromImage(out)
    /\ ev' = Event("prefillAdvanced", Extraction("button", out), out.kind)
    /\ UNCHANGED <<viewVars, panVars, cropVars, timers, cropLoads>>

\* croppedImg.onload of executeCropPrefill, for the i-th pending cropped image:
\* the mode is read when the callback runs
CropImageLoaded(i, out) ==
    /\ i \in 1..Len(cropLoads)
    /\ IF cropPrefillMode = Some("basic")
       THEN /\ prefillPaletteFromImage(out)
            /\ ev' = Event("prefillBasic", Extraction("crop", out), out.kind)
       ELSE /\ prefillAdvancedPaletteFromImage(out)
            /\ ev' = Event("prefillAdvanced", Extraction("crop", out), out.kind)
    /\ cropLoads' = DropAt(cropLoads, i)
    /\ UNCHANGED <<viewVars, panVars, cropVars, timers>>

\* deleteBtn.onclick of the i-th colour block, which calls removeColor(hex, i - 1)
\* with the hex the block was created for
RemoveColor(i) ==
    /\ i \in 1..Len(rendered)
    /\ LET hex == rendered[i]
           actualIndex == IndexOf(colors, hex)
           blockToRemove == i <= Len(rendered)
       IN  IF actualIndex > 0
           THEN /\ undoStack' = saveState(undoStack, colors)
                /\ IF blockToRemove
                   THEN /\ timers' = Append(timers, [kind |-> "remove",
                                                     actualIndex |-> actualIndex,
                                                     click |-> Click(hex, i - 1)])
                        /\ UNCHANGED <<colors, rendered>>
                   ELSE /\ colors' = Splice(colors, actualIndex)
                        /\ rendered' = renderPalette(colors')
                        /\ UNCHANGED timers
                /\ ev' = Event("remove", Click(hex, i - 1), "accepted")
           ELSE /\ ev' = Event("remove", Click(hex, i - 1), "absent")
                /\ UNCHANGED <<paletteVars, timers>>
    /\ UNCHANGED <<viewVars, panVars, cropVars, cropLoads>>

\* a setTimeout callback may run once no removal timer set before it is pending
\* (removal timers all wait 200 ms; a clearing timer waits longer)
TimerDue(k) ==
    /\ k \in 1..Len(timers)
    /\ \A j \in 1..(k - 1) : timers[j].kind # "remove"

DropTimer(k) == DropAt(timers, k)

\* removeColor's setTimeout callback; it is direct when it belongs to the click
\* that was the last thing to happen
RemoveTimer(k) ==
    /\ TimerDue(k)
    /\ timers[k].kind = "remove"
    /\ colors' = Splice(colors, timers[k].actualIndex)
    /\ rendered' = renderPalette(colors')
    /\ timers' = DropTimer(k)
    /\ ev' = Deferred("removeTimer", timers[k].click,
                      IF ev.op = "remove" /\ ev.res = "accepted" /\ k = Len(timers)
                      THEN "direct" ELSE "interleaved",
                      colors)
    /\ UNCHANGED <<undoStack, viewVars, panVars, cropVars, cropLoads>>

\* a clearAll without the early return on an empty palette
ClearAllWithoutEarlyReturn ==
    /\ rendered # <<>>
    /\ undoStack' = saveState(undoStack, colors)
    /\ timers' = Append(timers, [kind |-> "clear", actualIndex |-> 0,
                                 click |-> Click(<<>>, 0)])
    /\ ev' = Event("clear", 0, IF Len(colors) = 0 THEN "empty" ELSE "accepted")
    /\ UNCHANGED <<colors, rendered, viewVars, panVars, cropVars, cropLoads>>

\* a clearAll that saves the state and sets no timer
ClearAllSetsNoTimer ==
    /\ rendered # <<>>
    /\ IF Len(colors) = 0
       THEN /\ ev' = Event("clear", 0, "empty")
            /\ UNCHANGED undoStack
       ELSE /\ undoStack' = saveState(undoStack, colors)
            /\ ev' = Event("clear", 0, "accepted")
    /\ UNCHANGED <<colors, rendered, timers, viewVars, panVars, cropVars, cropLoads>>

\* clearAll: the clear button, shown and enabled while the rendered palette
\* is not empty
ClearAll ==
    /\ rendered # <<>>
    /\ IF Len(colors) = 0
       THEN /\ ev' = Event("clear", 0, "empty")
            /\ UNCHANGED <<undoStack, timers>>
       ELSE /\ undoStack' = saveState(undoStack, colors)
            /\ timers' = Append(timers, [kind |-> "clear", actualIndex |-> 0,
                                         click |-> Click(<<>>, 0)])
            /\ ev' = Event("clear", 0, "accepted")
    /\ UNCHANGED <<colors, rendered, viewVars, panVars, cropVars, cropLoads>>

\* clearAll's last setTimeout callback
ClearTimer(k) ==
    /\ TimerDue(k)
    /\ timers[k].kind = "clear"
    /\ colors' = <<>>
    /\ rendered' = renderPalette(colors')
    /\ timers' = DropTimer(k)
    /\ ev' = Deferred("clearTimer", 0,
                      IF ev.op = "clear" /\ ev.res = "accepted" /\ k = Len(timers)
                      THEN "direct" ELSE "interleaved",
                      colors)
    /\ UNCHANGED <<undoStack, viewVars, panVars, cropVars, cropLoads>>

\* what an undo comes after: the click of a remove or a clear that set a
\* timer, the deferred step of the click right before it, or anything else
After ==
    IF ev.op \in {"remove", "clear"} /\ ev.res = "accepted" THEN "request"
    ELSE IF ev.op \in {"removeTimer", "clearTimer"} /\ ev.res = "direct" THEN "deferred"
    ELSE "other"

\* an undo that restores the top entry and leaves it on the stack
UndoKeepsTop ==
    /\ IF Len(undoStack) = 0
       THEN /\ ev' = Deferred("undo", After, "empty", colors)
            /\ UNCHANGED paletteVars
       ELSE /\ colors' = undoStack[Len(undoStack)]
            /\ rendered' = renderPalette(colors')
            /\ ev' = Deferred("undo", After, "popped", colors)
            /\ UNCHANGED undoStack
    /\ UNCHANGED <<viewVars, panVars, cropVars, timers, cropLoads>>

\* undo: the undo button or Ctrl+Z
Undo ==
    /\ IF Len(undoStack) = 0
       THEN /\ ev' = Deferred("undo", After, "empty", colors)
            /\ UNCHANGED paletteVars
       ELSE /\ colors' = undoStack[Len(undoStack)]
            /\ undoStack' = SubSeq(undoStack, 1, Len(undoStack) - 1)
            /\ rendered' = renderPalette(colors')
            /\ ev' = Deferred("undo", After, "popped", colors)
    /\ UNCHANGED <<viewVars, panVars, cropVars, timers, cropLoads>>

\* Array.prototype.join: the elements, with the separator between them
RECURSIVE Join(_, _)
Join(parts, separator) ==
    IF Len(parts) = 0 THEN <<>>
    ELSE IF Len(parts) = 1 THEN parts[1]
    ELSE parts[1] \o separator \o Join(Tail(parts), separator)

\* exportColors: the export button; the text goes to the clipboard
ExportColors ==
    /\ ev' = Event("export", colors,
                   IF Len(colors) = 0 THEN Null
                   ELSE Some(Join(colors, <<",", " ">>)))
    /\ UNCHANGED <<paletteVars, viewVars, panVars, cropVars, timers, cropLoads>>

\* rgbToHex applied to three channel values
ApplyRgbToHex(r, g, b) ==
    /\ ev' = Event("rgbToHex", <<r, g, b>>, rgbToHex(r, g, b))
    /\ UNCHANGED <<paletteVars, viewVars, panVars, cropVars, timers, cropLoads>>

\* sampleArea applied at a pixel of an image
ApplySampleArea(image, x, y) ==
    /\ ev' = Event("sampleArea", [image |-> image, x |-> x, y |-> y],
                   sampleArea(image, x, y))
    /\ UNCHANGED <<paletteVars, viewVars, panVars, cropVars, timers, cropLoads>>

\* --------------------------------------------------- the specifications
\* the canvas points of the mouse events, and where a pointer that has left
\* the canvas may be
Points == {<<4, 4>>, <<39, 29>>}
LeavePoints == {<<-1, 10>>}
WheelDeltas == {-100, 100}
CropModes == {"basic", "advanced"}
\* the colour blocks whose delete button is clicked, by their place in the grid
Blocks == {1, 4}

\* the colour count the cropped image's onload asks the extractor for
CropCount == IF cropPrefillMode = Some("basic") THEN 20 ELSE 5

\* the number of user events of a behaviour
MaxEvents == 5

\* a user event counts; a callback does not
Tick == nEvents < MaxEvents /\ nEvents' = nEvents + 1
Free == UNCHANGED nEvents

Next ==
    \/ \E image \in Images : Tick /\ ImageLoaded(image)
    \/ \E d \in WheelDeltas : Tick /\ HandleWheel(d)
    \/ \E p \in Points : Tick /\ HandleMouseDown(p)
    \/ \E p \in Points : Tick /\ HandleMouseMove(p)
    \/ \E p \in Points \cup LeavePoints : Tick /\ HandleMouseUp(p)
    \/ \E mode \in CropModes : Tick /\ StartCropMode(mode)
    \/ \E out \in ExtractorOutcomes(20) : Tick /\ PrefillPalette(out)
    \/ \E out \in ExtractorOutcomes(5) : Tick /\ PrefillAdvancedPalette(out)
    \/ \E i \in Blocks : Tick /\ RemoveColor(i)
    \/ Tick /\ ClearAll
    \/ Tick /\ Undo
    \/ \E i \in 1..Len(cropLoads), out \in ExtractorOutcomes(CropCount) :
          Free /\ CropImageLoaded(i, out)
    \/ \E k \in 1..Len(timers) : Free /\ RemoveTimer(k)
    \/ \E k \in 1..Len(timers) : Free /\ ClearTimer(k)

Spec == Init /\ [][Next]_vars

\* The browser runs every setTimeout callback once its delay has passed,
\* whatever the user does or stops doing.
TimersRun ==
    /\ WF_vars(\E k \in 1..Len(timers) : Free /\ RemoveTimer(k))
    /\ WF_vars(\E k \in 1..Len(timers) : Free /\ ClearTimer(k))

\* The history at depth: one image, clicks on one point of it, and undo, with
\* no bound on their number (the palette and the history are bounded by the
\* program itself).
HistoryPoint == <<4, 4>>

NextHistory ==
    \/ \E image \in Images : Free /\ IsNull(currentImage) /\ ImageLoaded(image)
    \/ Free /\ HandleMouseDown(HistoryPoint)
    \/ Free /\ HandleMouseUp(HistoryPoint)
    \/ Free /\ Undo

SpecHistory == Init /\ [][NextHistory]_vars

\* The clearing among the other changes of the palette: one image, clicks on
\* one point of it, a basic prefill that finds few colours, remove, clear and
\* undo, and the timers.
MaxClearEvents == 5
TickClear == nEvents < MaxClearEvents /\ nEvents' = nEvents + 1
NextClear ==
    \/ \E image \in Images : TickClear /\ IsNull(currentImage) /\ ImageLoaded(image)
    \/ TickClear /\ HandleMouseDown(HistoryPoint)
    \/ TickClear /\ HandleMouseUp(HistoryPoint)
    \/ \E out \in ExtractorOutcomes(20) :
          TickClear /\ Len(out.palette) <= FewColors /\ PrefillPalette(out)
    \/ \E i \in Blocks : TickClear /\ RemoveColor(i)
    \/ TickClear /\ ClearAll
    \/ TickClear /\ Undo
    \/ \E k \in 1..Len(timers) : Free /\ RemoveTimer(k)
    \/ \E k \in 1..Len(timers) : Free /\ ClearTimer(k)
SpecClear == Init /\ [][NextClear]_vars /\ TimersRun

\* The crop gesture at depth: one image, the two crop modes, and selections
\* between three canvas points, one of them 10 canvas pixels to the right of
\* another.
CropPoints == {<<4, 4>>, <<14, 29>>, <<39, 29>>}
MaxCropEvents == 6
TickCrop == nEvents < MaxCropEvents /\ nEvents' = nEvents + 1

NextCrop ==
    \/ \E image \in Images : TickCrop /\ IsNull(currentImage) /\ ImageLoaded(image)
    \/ \E mode \in CropModes : TickCrop /\ StartCropMode(mode)
    \/ \E p \in CropPoints : TickCrop /\ HandleMouseDown(p)
    \/ \E p \in CropPoints : TickCrop /\ HandleMouseMove(p)
    \/ \E p \in CropPoints \cup LeavePoints : TickCrop /\ HandleMouseUp(p)
    \/ \E i \in 1..Len(cropLoads), out \in ExtractorOutcomes(CropCount) :
          Free /\ CropImageLoaded(i, out)

SpecCrop == Init /\ [][NextCrop]_vars

\* the view alone: images of several sizes loaded into the pane, and the wheel
ViewSizes == {2, ImageWidth, 500}
ViewImages == {[width |-> w, height |-> h] : w \in ViewSizes, h \in ViewSizes}
MaxViewEvents == 5
TickView == nEvents < MaxViewEvents /\ nEvents' = nEvents + 1
NextView ==
    \/ \E image \in ViewImages : TickView /\ ImageLoaded(image)
    \/ \E deltaY \in WheelDeltas : TickView /\ HandleWheel(deltaY)
SpecView == Init /\ [][NextView]_vars

\* The export: one image, picks and prefills to fill the palette, and the
\* export button.
MaxExportEvents == 5
TickExport == nEvents < MaxExportEvents /\ nEvents' = nEvents + 1
NextExport ==
    \/ \E image \in Images : TickExport /\ IsNull(currentImage) /\ ImageLoaded(image)
    \/ \E p \in Points : TickExport /\ HandleMouseDown(p)
    \/ \E p \in Points : TickExport /\ HandleMouseUp(p)
    \/ \E out \in ExtractorOutcomes(20) : TickExport /\ PrefillPalette(out)
    \/ TickExport /\ ExportColors
SpecExport == Init /\ [][NextExport]_vars

\* The pure functions of the colour maths on their own, each applied once to
\* every input: rgbToHex on every
\* value of one channel beside the values of the other two where the number
\* of digits or the case of a digit changes, and sampleArea at every pixel of
\* an image, one of them small enough for a corner to see both bands.
Channels == 0..255
EdgeChannels == {0, 9, 10, 15, 16, 255}
SampleImages == Images \cup {[width |-> 3, height |-> 3]}
Fresh == ev.op = "init" /\ Free
NextColorMath ==
    \/ Fresh /\ \E v \in Channels, e1, e2 \in EdgeChannels : ApplyRgbToHex(v, e1, e2)
    \/ Fresh /\ \E v \in Channels, e1, e2 \in EdgeChannels : ApplyRgbToHex(e1, v, e2)
    \/ Fresh /\ \E v \in Channels, e1, e2 \in EdgeChannels : ApplyRgbToHex(e1, e2, v)
    \/ Fresh /\ \E image \in SampleImages :
                   \E x \in 0..(image.width - 1), y \in 0..(image.height - 1) :
                      ApplySampleArea(image, x, y)
SpecColorMath == Init /\ [][NextColorMath]_vars

\* The crop region under pan and zoom: one image, one step of the wheel right
\* after it is loaded, a drag that moves
\* the image by a few pixels or far out of the pane, and selections drawn in
\* either direction over what is left of it.
RegionPoints == {<<4, 4>>, <<14, 4>>, <<39, 29>>}
MaxRegionEvents == 9
TickRegion == nEvents < MaxRegionEvents /\ nEvents' = nEvents + 1
NextRegion ==
    \/ \E image \in Images : TickRegion /\ IsNull(currentImage) /\ ImageLoaded(image)
    \/ \E deltaY \in WheelDeltas : TickRegion /\ ev.op = "load" /\ HandleWheel(deltaY)
    \/ \E p \in RegionPoints : TickRegion /\ HandleMouseDown(p)
    \/ \E p \in RegionPoints : TickRegion /\ HandleMouseMove(p)
    \/ \E p \in RegionPoints : TickRegion /\ HandleMouseUp(p)
    \/ TickRegion /\ StartCropMode("basic")
SpecRegion == Init /\ [][NextRegion]_vars

\* The click and the drag: one image, and presses, moves and releases at
\* points of which two are no more than DRAG_THRESHOLD apart.
DragPoints == {<<4, 4>>, <<6, 5>>, <<39, 29>>}
MaxDragEvents == 6
TickDrag == nEvents < MaxDragEvents /\ nEvents' = nEvents + 1
NextDrag ==
    \/ \E image \in Images : TickDrag /\ IsNull(currentImage) /\ ImageLoaded(image)
    \/ \E p \in DragPoints : TickDrag /\ HandleMouseDown(p)
    \/ \E p \in DragPoints : TickDrag /\ HandleMouseMove(p)
    \/ \E p \in DragPoints : TickDrag /\ HandleMouseUp(p)
SpecDrag == Init /\ [][NextDrag]_vars

\* ------------------------------------------------------------- the claims
Top(stack) == stack[Len(stack)]

\* a push that keeps the newest MAX_UNDO_STACK entries, in order
Pushed(stack, palette) ==
    IF Len(stack) < MAX_UNDO_STACK THEN Append(stack, palette)
    ELSE SubSeq(stack, 2, Len(stack)) \o <<palette>>

\* the canvas point p maps outside [0, width) x [0, height) of the loaded image
Outside(p) ==
    LET at == canvasToImageCoords(p[1], p[2])
        image == Val(currentImage)
    IN  \/ QLt(at.x, QInt(0)) \/ QLe(QInt(image.width), at.x)
        \/ QLt(at.y, QInt(0)) \/ QLe(QInt(image.height), at.y)

\* a mouse-up that reaches pickColorAtPoint: a press without a drag, outside
\* a crop selection
PickAttempted ==
    /\ ~(isCropMode /\ ~IsNull(cropStartX))
    /\ isPanning
    /\ ~hasDragged

PrefillOps == {"prefillBasic", "prefillAdvanced"}

HistoryKeepsNewestTen ==
    /\ [](Len(undoStack) <= MAX_UNDO_STACK)
    /\ [](\A i \in 1..Len(undoStack) :
             Len(undoStack[i]) + (Len(undoStack) - i) + 1 = Len(colors))
    /\ [][/\ (ev'.op # "undo" /\ undoStack' # undoStack)
                => undoStack' = Pushed(undoStack, colors)
          /\ (ev'.op = "undo" /\ undoStack # <<>>)
                => Len(undoStack') = Len(undoStack) - 1
          /\ (ev'.op = "undo" /\ undoStack = <<>>)
                => UNCHANGED <<colors, undoStack>>]_vars

\* an undo found the history empty while the palette is not: the snapshot of
\* the empty palette was evicted and every later one has been popped
UndoAfterEvictionFindsNothing ==
    /\ ev.op = "undo"
    /\ ev.res = "empty"
    /\ colors # <<>>

\* C3: whenever pick, a prefill, remove or clear changes the palette, the top of
\* the history right after the change is the palette as it was right before it.
SnapshotDiscipline ==
    [][(colors' # colors /\ ev'.op \in {"up", "remove", "removeTimer", "clear",
                                         "clearTimer"} \cup PrefillOps)
          => (undoStack' # <<>> /\ Top(undoStack') = colors)]_vars

PickRejectedOutsideOrFull ==
    [][(/\ ev'.op = "up"
        /\ \/ Len(colors) = MAX_COLORS
           \/ (~IsNull(currentImage) /\ Outside(ev'.arg)))
          => UNCHANGED <<colors, undoStack>>]_vars

\* a pick was rejected for its point alone: the palette has room
PickOutsideRejected ==
    /\ ev.op = "up"
    /\ ev.res = "rejected"
    /\ Len(colors) < MAX_COLORS
    /\ ~IsNull(currentImage)
    /\ Outside(ev.arg)

PrefillReplaces ==
    [][(ev'.op \in PrefillOps /\ ev'.res = "palette")
          => colors' = IF ev'.op = "prefillBasic"
                       THEN HexOfPalette(ev'.arg.palette)
                       ELSE AdvancedOf(ev'.arg.palette)]_vars

\* a prefill succeeded and a colour of the palette before it is gone
PrefillDroppedEarlierColor ==
    /\ ev.op \in PrefillOps
    /\ ev.res = "palette"
    /\ undoStack # <<>>
    /\ \E i \in 1..Len(Top(undoStack)) : Top(undoStack)[i] \notin Range(colors)

\* C8: a prefill whose extractor throws or returns nothing leaves the palette
\* as it was.
FailedExtractionKeepsPalette ==
    [][(ev'.op \in PrefillOps /\ ev'.res \in {"throw", "null"})
          => colors' = colors]_vars

\* after is before without the first occurrence of hex
IsWithoutFirst(after, before, hex) ==
    \E i \in 1..Len(before) :
        /\ before[i] = hex
        /\ \A j \in 1..(i - 1) : before[j] # hex
        /\ after = SubSeq(before, 1, i - 1) \o SubSeq(before, i + 1, Len(before))

\* C9: a removal that runs right after its click deletes the first occurrence
\* of the clicked colour, whatever block was clicked, and keeps the rest in
\* order; a click for a colour the palette does not hold changes neither the
\* palette nor the history.
RemoveDeletesFirstOccurrence ==
    [][/\ (ev'.op = "remove" /\ ev'.arg.hex \notin Range(colors))
            => UNCHANGED <<colors, undoStack>>
       /\ (/\ ev.op = "remove"
           /\ ev.res = "accepted"
           /\ ev'.op = "removeTimer"
           /\ timers' = SubSeq(timers, 1, Len(timers) - 1))
            => IsWithoutFirst(colors', colors, ev.arg.hex)]_vars

\* the fourth block was clicked and its colour is still third in the palette:
\* an earlier occurrence went
RemovedEarlierDuplicate ==
    /\ ev.op = "removeTimer"
    /\ ev.res = "direct"
    /\ ev.arg.displayIndex = 3
    /\ Len(colors) >= 3
    /\ colors[3] = ev.arg.hex

\* C10: clear on an empty palette changes neither palette nor history; clear on
\* a non-empty palette pushes one snapshot of it, and its deferred step leaves
\* the palette empty and the history alone.
ClearSnapshotsOnceThenEmpties ==
    [][/\ ev'.op = "clear"
            => IF colors = <<>> THEN UNCHANGED <<colors, undoStack>>
               ELSE /\ undoStack' = Pushed(undoStack, colors)
                    /\ Len(timers') = Len(timers) + 1
                    /\ Top(timers').kind = "clear"
       /\ ev'.op = "clearTimer"
            => (colors' = <<>> /\ UNCHANGED undoStack)]_vars

\* the clear button was clicked while the palette was empty
ClearFoundPaletteEmpty ==
    /\ ev.op = "clear"
    /\ ev.res = "empty"
    /\ colors = <<>>

\* how often x occurs in seq
Count(seq, x) == Cardinality({i \in 1..Len(seq) : seq[i] = x})

\* display is sorted by non-decreasing hue and holds each colour exactly as
\* often as palette
IsSortedPermutation(display, palette) ==
    /\ Len(display) = Len(palette)
    /\ \A i \in 1..(Len(display) - 1) : QLe(Hue(display[i]), Hue(display[i + 1]))
    /\ \A i \in 1..Len(palette) :
          Count(display, palette[i]) = Count(palette, palette[i])

\* C11: the display order of every reachable palette is sorted by
\* non-decreasing hue and is a permutation of the palette: no colour is added,
\* dropped or duplicated.
DisplayOrderIsSortedPermutation == IsSortedPermutation(sortByHue(colors), colors)

\* the grid shows a palette with a repeated colour in another order than the
\* manual one
DisplayOrderDiffersFromManual ==
    /\ rendered = sortByHue(colors)
    /\ rendered # colors
    /\ \E i \in 1..Len(colors) : Count(colors, colors[i]) > 1

\* C12: a crop selection whose clamped image rectangle is narrower or lower
\* than MIN_CROP_SIZE starts no extraction, changes neither palette nor
\* history, and ends the crop session.
SmallCropIsDropped ==
    [][(/\ ev'.op = "up"
        /\ isCropMode
        /\ ~IsNull(cropStartX)
        /\ ~IsNull(currentImage)
        /\ \/ CropRegion.imgX2 - CropRegion.imgX1 < MIN_CROP_SIZE
           \/ CropRegion.imgY2 - CropRegion.imgY1 < MIN_CROP_SIZE)
          => (/\ UNCHANGED <<colors, undoStack, cropLoads>>
              /\ ~isCropMode'
              /\ IsNull(cropStartX'))]_vars

\* a selection 5 image pixels wide and more than MIN_CROP_SIZE high was dropped
NarrowCropDropped ==
    /\ ev.op = "up"
    /\ ev.res = "cropRejected"
    /\ ev.region.imgX2 - ev.region.imgX1 = 5
    /\ ev.region.imgY2 - ev.region.imgY1 >= MIN_CROP_SIZE
    /\ cropLoads = <<>>

\* C13: the cropped image of a selection is handed to the prefill variant of
\* the mode its selection was begun in.
CropRunsBegunMode ==
    [][(ev'.op \in PrefillOps /\ ev'.arg.from = "crop")
          => \E i \in 1..Len(cropLoads) :
                /\ cropLoads' = DropAt(cropLoads, i)
                /\ ev'.op = IF cropLoads[i].begun = Some("basic")
                            THEN "prefillBasic" ELSE "prefillAdvanced"]_vars

\* a gesture is under way: the button is down for a pan, or a crop selection
\* has been started
GestureUnderWay == isPanning \/ (isCropMode /\ ~IsNull(cropStartX))

\* C14: the pointer leaving the canvas during a crop selection or a pan aborts
\* the gesture: the leave event dispatches no extraction, picks no colour, and
\* leaves palette and history as they were.
LeaveAbortsGesture ==
    [][(ev'.op = "up" /\ ev'.arg \in LeavePoints /\ GestureUnderWay)
          => (/\ UNCHANGED <<colors, undoStack, cropLoads>>
              /\ ev'.res \notin {"picked", "cropped"})]_vars

\* C15: at most one gesture at a time: the panning flag and the crop-mode flag
\* are never both set, and while crop mode is active no pointer event changes
\* the pan offset or picks a colour.
OneGestureAtATime ==
    /\ [](~(isPanning /\ isCropMode))
    /\ [][(isCropMode /\ ev'.op \in {"down", "move", "up"})
             => (UNCHANGED <<panX, panY>> /\ ev'.res # "picked")]_vars

\* C16: once an image is loaded the zoom lies in [ZOOM_MIN, ZOOM_MAX], for
\* every image size, after any sequence of fits to the pane and wheel steps.
ZoomWithinLimits ==
    ~IsNull(currentImage) => (QLe(ZOOM_MIN, zoom) /\ QLe(zoom, ZOOM_MAX))

\* String.prototype.toUpperCase on the characters of a hex string
ToUpperCase(text) ==
    [i \in 1..Len(text) |->
        IF \E d \in 1..16 : HexDigits[d] = text[i]
        THEN UpperDigits[CHOOSE d \in 1..16 : HexDigits[d] = text[i]]
        ELSE text[i]]

\* C17: the exported text is the palette's colours in manual order, each as
\* an uppercase hex string, joined by a comma and a space.
ExportIsUppercaseJoined ==
    [][(ev'.op = "export" /\ Len(colors) > 0)
          => ev'.res = Some(Join([i \in 1..Len(colors) |-> ToUpperCase(colors[i])],
                                 <<",", " ">>))]_vars

\* where the k-th main colour stands in the advanced result, and the number
\* of variations that follow it
MainAt(k) == IF k = 1 THEN 1 ELSE 4 * k - 2
VariationCount(k) == IF k = 1 THEN 4 ELSE 3

\* result is, for each main colour in rank order, its hex followed by its
\* variations, and nothing else
MainsWithVariations(result, mains) ==
    /\ Len(result) = IF Len(mains) = 0 THEN 0 ELSE 4 * Len(mains) + 1
    /\ \A k \in 1..Len(mains) :
          /\ result[MainAt(k)] = rgbToHex(mains[k][1], mains[k][2], mains[k][3])
          /\ SubSeq(result, MainAt(k) + 1, MainAt(k) + VariationCount(k))
                = createColorVariations(mains[k][1], mains[k][2], mains[k][3],
                                        VariationCount(k))

TwoDigits(v) == <<HexDigits[(v \div 16) + 1], HexDigits[(v % 16) + 1]>>

\* C19: rgbToHex gives "#" and six lowercase hex digits, two for each channel
\* with a leading zero where needed, and hexToRgb gives the channels back.
HexRoundTrip ==
    ev.op = "rgbToHex"
       => (/\ Len(ev.res) = 7
           /\ ev.res[1] = "#"
           /\ SubSeq(ev.res, 2, 3) = TwoDigits(ev.arg[1])
           /\ SubSeq(ev.res, 4, 5) = TwoDigits(ev.arg[2])
           /\ SubSeq(ev.res, 6, 7) = TwoDigits(ev.arg[3])
           /\ hexToRgb(ev.res)
                 = Some([r |-> ev.arg[1], g |-> ev.arg[2], b |-> ev.arg[3]]))

\* a colour with a channel of one hex digit and a channel with two letters
PaddedAndLetteredHex ==
    /\ ev.op = "rgbToHex"
    /\ ev.arg[1] = 255
    /\ ev.arg[2] = 9
    /\ ev.res = <<"#", "f", "f", "0", "9">> \o TwoDigits(ev.arg[3])

\* the pixels of the 3x3 square around (x, y) that are in the image: the
\* columns and the rows of the square that the image has
ColumnsInImage(image, x) ==
    {px \in (x - 1)..(x + 1) : px >= 0 /\ px < image.width}
RowsInImage(image, y) ==
    {py \in (y - 1)..(y + 1) : py >= 0 /\ py < image.height}
PixelsInImage(image, x, y) == ColumnsInImage(image, x) \X RowsInImage(image, y)

RECURSIVE SumOver(_, _, _)
SumOver(image, c, pixels) ==
    IF pixels = {} THEN 0
    ELSE LET at == CHOOSE p \in pixels : TRUE
         IN  PixelAt(image, at[1], at[2])[c] + SumOver(image, c, pixels \ {at})

\* the mean of channel c over the pixels, rounded half up
RoundedMean(image, c, pixels) ==
    (2 * SumOver(image, c, pixels) + Cardinality(pixels))
        \div (2 * Cardinality(pixels))

\* x or y is the first or the last column or row of the image
OnEdge(image, x, y) ==
    (IF x = 0 \/ x = image.width - 1 THEN 1 ELSE 0)
    + (IF y = 0 \/ y = image.height - 1 THEN 1 ELSE 0)

\* C20: sampleArea gives, for each channel, the rounded mean over exactly the
\* pixels of the 3x3 square that are in the image (9 inside the image, 6 on
\* an edge, 4 in a corner); where those pixels all have one colour, it gives
\* that colour.
SampleIsMeanOfPixelsInImage ==
    ev.op = "sampleArea"
       => LET image == ev.arg.image
              pixels == PixelsInImage(image, ev.arg.x, ev.arg.y)
          IN  /\ Cardinality(pixels)
                    = CASE OnEdge(image, ev.arg.x, ev.arg.y) = 0 -> 9
                        [] OnEdge(image, ev.arg.x, ev.arg.y) = 1 -> 6
                        [] OTHER -> 4
              /\ ev.res = [r |-> RoundedMean(image, 1, pixels),
                           g |-> RoundedMean(image, 2, pixels),
                           b |-> RoundedMean(image, 3, pixels)]
              /\ \A c \in {<<204, 0, 0>>, <<0, 102, 204>>} :
                    (\A p \in pixels : PixelAt(image, p[1], p[2]) = c)
                       => ev.res = [r |-> c[1], g |-> c[2], b |-> c[3]]

\* a sample on an edge of the image whose 6 pixels are of both bands
EdgeSampleOfBothBands ==
    /\ ev.op = "sampleArea"
    /\ OnEdge(ev.arg.image, ev.arg.x, ev.arg.y) = 1
    /\ ev.res.r \notin {0, 204}

\* C21: whatever is interleaved with the pending removal timers, the deferred
\* step of every accepted remove deletes exactly one element of the palette,
\* and that element is the requested colour.
RemoveDeletesRequestedColor ==
    [][ev'.op = "removeTimer"
          => \E i \in 1..Len(colors) :
                /\ colors[i] = ev'.arg.hex
                /\ colors' = DropAt(colors, i)]_vars

\* C22: when undo is the first user operation after an accepted remove or
\* clear, the palette once the timers have fired is the palette from before
\* that remove or clear, whether the undo came after the deferred step or
\* before it.
UndoRestoresRequestedPalette ==
    [][/\ (/\ ev.op \in {"removeTimer", "clearTimer"}
           /\ ev.res = "direct"
           /\ timers = <<>>
           /\ ev'.op = "undo")
            => colors' = ev.before
       /\ (/\ ev.op = "undo"
           /\ ev.arg = "request"
           /\ Len(timers) = 1
           /\ ev'.op \in {"removeTimer", "clearTimer"})
            => colors' = ev.before]_vars

\* C23: a prefill whose extraction fails leaves the history as it was: no
\* snapshot is pushed and none is evicted.
FailedExtractionKeepsHistory ==
    [][(ev'.op \in PrefillOps /\ ev'.res \in {"throw", "null"})
          => undoStack' = undoStack]_vars

\* C24: the region of every crop selection that is handed to an extraction
\* lies in the image and is at least MIN_CROP_SIZE wide and high:
\* 0 <= x1 < x2 <= width and 0 <= y1 < y2 <= height.
DispatchedRegionInsideImage ==
    [][(ev'.op = "up" /\ ev'.res = "cropped")
          => LET region == ev'.region
                 image == Val(currentImage)
             IN  /\ cropLoads' = Append(cropLoads, Cropped(region, cropPrefillMode))
                 /\ 0 <= region.imgX1 /\ region.imgX1 < region.imgX2
                 /\ region.imgX2 <= image.width
                 /\ 0 <= region.imgY1 /\ region.imgY1 < region.imgY2
                 /\ region.imgY2 <= image.height
                 /\ region.imgX2 - region.imgX1 >= MIN_CROP_SIZE
                 /\ region.imgY2 - region.imgY1 >= MIN_CROP_SIZE]_vars

\* a selection that began left of the panned image was handed on, cut to the
\* image, after the anchor was the lower right corner
ClampedRegionDispatched ==
    /\ ev.op = "up"
    /\ ev.res = "cropped"
    /\ QLt(QInt(0), panX)
    /\ ev.region.imgX1 = 0
    /\ cropStartY > cropEndY

\* the entries of seq whose hue is h, in their order
OfHue(seq, h) == LET HasHue(hex) == Hue(hex) = h IN SelectSeq(seq, HasHue)

\* the colours of each hue stand in display in the order they have in palette
IsStableByHue(display, palette) ==
    \A i \in 1..Len(palette) :
        OfHue(display, Hue(palette[i])) = OfHue(palette, Hue(palette[i]))

\* C25: the display order keeps colours of equal hue in their manual order,
\* and taking it leaves the manual order alone: a pick, which renders the
\* palette sorted, still only appends to the manual order.
DisplayOrderIsStable ==
    /\ [](IsStableByHue(sortByHue(colors), colors))
    /\ [][(ev'.op = "up" /\ ev'.res = "picked")
             => (/\ SubSeq(colors', 1, Len(colors)) = colors
                 /\ rendered' = sortByHue(colors'))]_vars

\* two different colours of one hue stand in the palette, and the display
\* order is not the manual order
EqualHuesInReorderedPalette ==
    /\ sortByHue(colors) # colors
    /\ \E i, j \in 1..Len(colors) :
          /\ i < j
          /\ colors[i] # colors[j]
          /\ Hue(colors[i]) = Hue(colors[j])
          /\ \E k \in (i + 1)..(j - 1) : QLt(Hue(colors[k]), Hue(colors[i]))

ClearLeadsToEmptyPalette ==
    (ev.op = "clear" /\ ev.res = "accepted") ~> (colors = <<>>)

\* the clearing ran after something else had come between it and its click
ClearedAfterInterleaving ==
    /\ ev.op = "clearTimer"
    /\ ev.res = "interleaved"
    /\ colors = <<>>
    /\ undoStack # <<>>
    /\ Top(undoStack) # <<>>

\* C28: a step of the wheel changes the zoom and leaves the pan offset, the
\* palette and the history alone; a pan step adds the screen delta divided by
\* the zoom to the pan offset and leaves the zoom, the palette and the history
\* alone.
WheelAndPanKeepTheRest ==
    [][/\ ev'.op = "wheel" => UNCHANGED <<panX, panY, colors, undoStack>>
       /\ (ev'.op = "move" /\ ev'.res = "pan")
            => (/\ panX' = QAdd(panX, QDiv(QInt(ev'.arg[1] - lastMouseX), zoom))
                /\ panY' = QAdd(panY, QDiv(QInt(ev'.arg[2] - lastMouseY), zoom))
                /\ UNCHANGED <<zoom, colors, undoStack>>)]_vars

\* the image was dragged after the wheel had changed the zoom, with colours in
\* the palette
PannedAfterZoom ==
    /\ ev.op = "move"
    /\ ev.res = "pan"
    /\ ev.by # <<0, 0>>
    /\ zoom \notin {QInt(1), QInt(2)}
    /\ colors # <<>>

=============================================================================
